---- MODULE Spec2Model ----
(***************************************************************************)
(* mntdf (src/main.rs): a df program.  The module models                   *)
(*   - find_mount            (the scan of the mount table for one path),   *)
(*   - mount_entry_to_format_entry (statvfs counters -> one table row),    *)
(*   - main                  (option parsing, targeted / enumeration mode, *)
(*                            exit status, printing of the table).         *)
(* Text is a sequence of one-character strings where the code looks into   *)
(* it (paths, specs) and a TLA+ string where it only builds it (the six    *)
(* fields of a FormatEntry, the printed lines).  All characters are ASCII, *)
(* so a length in bytes is a length in characters.                         *)
(***************************************************************************)
EXTENDS Integers, Sequences, FiniteSets, TLC

VARIABLES
    \* ---- find_mount (lines 111-135)
    f_pc,            \* "idle" | "call" | "scan" | "ok" | "err"
    f_path,          \* the path argument
    f_seen,          \* the entries the iterator has yielded so far
    mount_entry,     \* Option<MountEntry>: <<>> is None, <<e>> is Some(e)
    file_len,        \* usize
    \* ---- mount_entry_to_format_entry (lines 150-187)
    m_pc,            \* "idle" | "call" | "returned" | "panicked"
    m_args,          \* the arguments and what statvfs answers
    m_result,        \* the value returned
    \* ---- main (lines 228-304)
    pc,              \* position in main
    opt_tokens,      \* what opt_parser.next() will yield, in order
    kilo_flag,       \* opts.kilo_flag
    overflow_checks, \* the build: TRUE panics on integer overflow, FALSE wraps
    paths,           \* the positional arguments not yet processed
    mount_entries,   \* enumeration mode: the entries not yet processed
    status,          \* the local variable status
    format_entries,  \* Vec<FormatEntry>
    stdout,          \* the lines printed
    exit_code,       \* the process's exit status (101 after a panic); -1 while it runs
    trace            \* history: one record per item processed

vars == <<f_pc, f_path, f_seen, mount_entry, file_len, m_pc, m_args, m_result,
          pc, opt_tokens, kilo_flag, overflow_checks, paths, mount_entries,
          status, format_entries, stdout, exit_code, trace>>

find_vars == <<f_pc, f_path, f_seen, mount_entry, file_len>>
fmt_vars == <<m_pc, m_args, m_result>>
main_vars == <<pc, opt_tokens, kilo_flag, overflow_checks, paths, mount_entries,
               status, format_entries, stdout, exit_code, trace>>

(***************************************************************************)
(* Bounds and input sets.                                                  *)
(***************************************************************************)
\* the longest mount table find_mount is given
MaxMounts == 3

\* usize::MAX; the largest integer TLC represents stands for it: no text
\* length reaches it
UsizeMax == 2147483647

\* sequences over S of length at most n
RECURSIVE SeqsUpTo(_, _)
SeqsUpTo(S, n) ==
    IF n = 0 THEN {<<>>}
    ELSE LET shorter == SeqsUpTo(S, n - 1)
         IN  shorter \cup {Append(s, x) : s \in shorter, x \in S}

\* the paths find_mount is asked about: absolute, relative, "."
Targets ==
    { <<"/">>, <<"/", "a">>, <<"/", "a", "a">>, <<"/", "a", "/", "b">>,
      <<"/", "a", "/", "b", "/", "c">>, <<"a">>, <<".">> }

\* mount points: absolute paths, nested ones, and two spellings of /a
MountPoints ==
    { <<"/">>, <<"/", "a">>, <<"/", "a", "/">>, <<"/", "/", "a">>,
      <<"/", "a", "/", "b">> }

\* sources: a pseudo-filesystem name and two absolute paths
MountSpecs ==
    { <<"t">>, <<"/", "a">>, <<"/", "a", "/", "b">> }

MountEntries == [spec : MountSpecs, file : MountPoints]

(***************************************************************************)
(* std::path: components and Path::starts_with.                            *)
(***************************************************************************)
RootDir == <<"/">>
CurDir == <<".">>

\* the pieces of p between its '/' characters, empty ones included
RECURSIVE SplitAt(_, _, _)
SplitAt(p, i, cur) ==
    IF i > Len(p) THEN <<cur>>
    ELSE IF p[i] = "/" THEN <<cur>> \o SplitAt(p, i + 1, <<>>)
    ELSE SplitAt(p, i + 1, Append(cur, p[i]))

\* Path::components: a RootDir for a leading '/', a CurDir for a leading
\* "." of a relative path, then the names; repeated '/', a trailing '/'
\* and inner "." are dropped
Components(p) ==
    LET segs == SplitAt(p, 1, <<>>)
        rooted == Len(p) > 0 /\ p[1] = "/"
        names == SelectSeq(segs, LAMBDA s : s # <<>> /\ s # CurDir)
    IN  (IF rooted THEN <<RootDir>>
         ELSE IF segs[1] = CurDir THEN <<CurDir>>
         ELSE <<>>) \o names

\* Path::starts_with: base's components are a prefix of path's
PathStartsWith(path, base) ==
    LET pc_ == Components(path)
        bc == Components(base)
    IN  /\ Len(bc) <= Len(pc_)
        /\ \A i \in 1..Len(bc) : pc_[i] = bc[i]

\* str::starts_with("/")
StrStartsWithSlash(s) == Len(s) > 0 /\ s[1] = "/"

\* to_string_lossy().len() of a path (ASCII: one byte per character)
TextLen(p) == Len(p)

(***************************************************************************)
(* find_mount, lines 111-135.                                              *)
(***************************************************************************)
\* line 120: the exact-source test.  The path is a command-line String
\* (line 230), so to_string_lossy on line 119 yields its text unchanged
TakesShortcut(entry, path) ==
    StrStartsWithSlash(entry.spec) /\ entry.spec = path

\* FindStep with line 122 lost: the shortcut does not raise file_len
FindStepNoMax(acc, entry, path) ==
    IF TakesShortcut(entry, path)
    THEN [mount_entry |-> <<entry>>, file_len |-> acc.file_len]
    ELSE IF PathStartsWith(path, entry.file)
    THEN LET tmp_file_len == TextLen(entry.file)
         IN  IF tmp_file_len > acc.file_len
             THEN [mount_entry |-> <<entry>>, file_len |-> tmp_file_len]
             ELSE acc
    ELSE acc

\* FindStep with >= for > on line 125: the last of equal lengths wins
FindStepLastWins(acc, entry, path) ==
    IF TakesShortcut(entry, path)
    THEN [mount_entry |-> <<entry>>, file_len |-> UsizeMax]
    ELSE IF PathStartsWith(path, entry.file)
    THEN LET tmp_file_len == TextLen(entry.file)
         IN  IF tmp_file_len >= acc.file_len
             THEN [mount_entry |-> <<entry>>, file_len |-> tmp_file_len]
             ELSE acc
    ELSE acc

\* FindStep with the shortcut guarded: a second exact source does not
\* replace the first
FindStepKeepFirst(acc, entry, path) ==
    IF TakesShortcut(entry, path) /\ acc.file_len # UsizeMax
    THEN [mount_entry |-> <<entry>>, file_len |-> UsizeMax]
    ELSE IF ~TakesShortcut(entry, path) /\ PathStartsWith(path, entry.file)
    THEN LET tmp_file_len == TextLen(entry.file)
         IN  IF tmp_file_len > acc.file_len
             THEN [mount_entry |-> <<entry>>, file_len |-> tmp_file_len]
             ELSE acc
    ELSE acc

\* lines 119-129: the body of the loop for one entry; acc is
\* [mount_entry, file_len]
FindStep(acc, entry, path) ==
    IF TakesShortcut(entry, path)
    THEN [mount_entry |-> <<entry>>, file_len |-> UsizeMax]
    ELSE IF PathStartsWith(path, entry.file)
    THEN LET tmp_file_len == TextLen(entry.file)
         IN  IF tmp_file_len > acc.file_len
             THEN [mount_entry |-> <<entry>>, file_len |-> tmp_file_len]
             ELSE acc
    ELSE acc

\* lines 114-134 over a whole table that parses
RECURSIVE FindFold(_, _, _)
FindFold(acc, table, path) ==
    IF table = <<>> THEN acc
    ELSE FindFold(FindStep(acc, Head(table), path), Tail(table), path)

FindMount(path, table) ==
    FindFold([mount_entry |-> <<>>, file_len |-> 0], table, path).mount_entry

\* find_mount is called
FindInit ==
    /\ f_pc = "call"
    /\ f_path \in Targets
    /\ f_seen = <<>>
    /\ mount_entry = <<>>
    /\ file_len = 0

\* line 113: the mount table opens; lines 114-115
FindOpen ==
    /\ f_pc = "call"
    /\ f_pc' = "scan"
    /\ mount_entry' = <<>>
    /\ file_len' = 0
    /\ UNCHANGED <<f_path, f_seen>>
    /\ UNCHANGED <<fmt_vars, main_vars>>

\* line 113: new_from_proc fails and ? returns the error
FindOpenErr ==
    /\ f_pc = "call"
    /\ f_pc' = "err"
    /\ UNCHANGED <<f_path, f_seen, mount_entry, file_len>>
    /\ UNCHANGED <<fmt_vars, main_vars>>

\* lines 116-130: the iterator yields Ok(entry)
FindReadEntry ==
    /\ f_pc = "scan"
    /\ Len(f_seen) < MaxMounts
    /\ \E entry \in MountEntries :
         LET acc == FindStep([mount_entry |-> mount_entry, file_len |-> file_len],
                             entry, f_path)
         IN  /\ mount_entry' = acc.mount_entry
             /\ file_len' = acc.file_len
             /\ f_seen' = Append(f_seen, entry)
    /\ UNCHANGED <<f_pc, f_path>>
    /\ UNCHANGED <<fmt_vars, main_vars>>

\* line 131: the iterator yields Err(err)
FindReadErr ==
    /\ f_pc = "scan"
    /\ f_pc' = "err"
    /\ UNCHANGED <<f_path, f_seen, mount_entry, file_len>>
    /\ UNCHANGED <<fmt_vars, main_vars>>

\* line 134: the iterator is exhausted
FindEnd ==
    /\ f_pc = "scan"
    /\ f_pc' = "ok"
    /\ UNCHANGED <<f_path, f_seen, mount_entry, file_len>>
    /\ UNCHANGED <<fmt_vars, main_vars>>

(***************************************************************************)
(* Text building: format!("{}", n), to_string_lossy, padding.              *)
(***************************************************************************)
Digits == <<"0", "1", "2", "3", "4", "5", "6", "7", "8", "9">>

\* format!("{}", n) of an unsigned integer: its decimal digits
RECURSIVE ToDecimal(_)
ToDecimal(n) ==
    IF n < 10 THEN Digits[n + 1]
    ELSE ToDecimal(n \div 10) \o Digits[(n % 10) + 1]

\* the String of a sequence of characters
RECURSIVE Text(_)
Text(p) == IF p = <<>> THEN "" ELSE Head(p) \o Text(Tail(p))

RECURSIVE Spaces(_)
Spaces(n) == IF n <= 0 THEN "" ELSE " " \o Spaces(n - 1)

(***************************************************************************)
(* u64 arithmetic.  A u64 wraps at 2^64 in a build without overflow        *)
(* checks and panics in a build with them.  TLC's integers are 32 bits     *)
(* wide, so the word is modelled 15 bits wide: wide enough that            *)
(* no sum or product of the counters drawn below leaves the word unless a  *)
(* subtraction has gone below zero first.                                  *)
(***************************************************************************)
U64Modulus == 2^15

Wrap(x) == x % U64Modulus

Fits(x) == 0 <= x /\ x < U64Modulus

(***************************************************************************)
(* statvfs, lines 74-96: what the system call answers for a path.          *)
(***************************************************************************)
\* the largest block counter drawn
MaxBlocks == 3

\* f_frsize values drawn: one byte, a half unit, not a power of two, a page
FragSizes == {1, 512, 1000, 4096}

\* Err(last_os_error), line 94
StatVfsErr == [ok |-> FALSE, frsize |-> 0, blocks |-> 0, bfree |-> 0, bavail |-> 0]

\* Ok(StatVFs {..}), lines 80-92: the fields the program reads
StatVfsOk ==
    [ok : {TRUE}, frsize : FragSizes, blocks : 0..MaxBlocks,
     bfree : 0..MaxBlocks, bavail : 0..MaxBlocks]

StatVfsResults == StatVfsOk \cup {StatVfsErr}

(***************************************************************************)
(* header_format_entry, lines 137-148.                                     *)
(***************************************************************************)
HeaderFormatEntry(kilo) ==
    [file_system |-> "Filesystem",
     total       |-> IF kilo THEN "1024-blocks" ELSE "512-blocks",
     used        |-> "Used",
     available   |-> "Available",
     capacity    |-> "Capacity",
     mount_point |-> "Mounted on"]

(***************************************************************************)
(* mount_entry_to_format_entry, lines 150-187.  The value returned is      *)
(* [tag, row]: "row" is Some(Some(row)), "skip" is Some(None), "none" is   *)
(* None (the query failed), "panic" is an overflow panic inside the call.  *)
(***************************************************************************)
NoRow == <<>>

\* line 154
UnitSize(kilo) == IF kilo THEN 1024 ELSE 512

\* line 156: whether a row is computed at all
ReportsEntry(total_blocks, is_vfs) == total_blocks # 0 \/ is_vfs

\* line 157, before the result is reduced to the word
UsedBlocksRaw(sv) == sv.blocks - sv.bfree

\* Capacity with the + total_blocks2 - 1 of line 161 lost: rounds down
CapacityRoundedDown(used_blocks, total_blocks2) ==
    IF total_blocks2 # 0
    THEN LET m == used_blocks * 100
         IN  [raw |-> {m}, text |-> ToDecimal(Wrap(m) \div total_blocks2) \o "%"]
    ELSE [raw |-> {}, text |-> "0%"]

\* lines 160-164: the capacity, as [raw, text]: the intermediate results
\* before reduction to the word, and the field
Capacity(used_blocks, total_blocks2) ==
    IF total_blocks2 # 0
    THEN LET m == used_blocks * 100
             s == Wrap(m) + total_blocks2
             d == Wrap(s) - 1
         IN  [raw |-> {m, s, d}, text |-> ToDecimal(Wrap(d) \div total_blocks2) \o "%"]
    ELSE [raw |-> {}, text |-> "0%"]

\* lines 166-167: (blocks * frsize + unit_size - 1) / unit_size
RoundedUp(blocks, frsize, unit_size) ==
    LET m == blocks * frsize
        s == Wrap(m) + unit_size
        d == Wrap(s) - 1
    IN  [raw |-> {m, s, d}, text |-> ToDecimal(Wrap(d) \div unit_size)]

\* RoundedDown rounding as lines 166-167 do: up
RoundedDownAsUp(blocks, frsize, unit_size) ==
    LET m == blocks * frsize
        s == Wrap(m) + unit_size
        d == Wrap(s) - 1
    IN  [raw |-> {m, s, d}, text |-> ToDecimal(Wrap(d) \div unit_size)]

\* line 168: (blocks * frsize) / unit_size
RoundedDown(blocks, frsize, unit_size) ==
    LET m == blocks * frsize
    IN  [raw |-> {m}, text |-> ToDecimal(Wrap(m) \div unit_size)]

MountEntryToFormatEntry(entry, kilo, is_vfs, sv, checks) ==
    IF ~sv.ok THEN [tag |-> "none", row |-> NoRow]
    ELSE IF ~ReportsEntry(sv.blocks, is_vfs) THEN [tag |-> "skip", row |-> NoRow]
    ELSE
      LET unit_size == UnitSize(kilo)
          total_blocks == sv.blocks
          used_raw == UsedBlocksRaw(sv)
          used_blocks == Wrap(used_raw)
          available_blocks == sv.bavail
          total2_raw == used_blocks + available_blocks
          total_blocks2 == Wrap(total2_raw)
          capacity == Capacity(used_blocks, total_blocks2)
          total == RoundedUp(total_blocks, sv.frsize, unit_size)
          used == RoundedUp(used_blocks, sv.frsize, unit_size)
          available == RoundedDown(available_blocks, sv.frsize, unit_size)
          raws == {used_raw, total2_raw} \cup capacity.raw \cup total.raw
                      \cup used.raw \cup available.raw
      IN  IF checks /\ \E x \in raws : ~Fits(x)
          THEN [tag |-> "panic", row |-> NoRow]
          ELSE [tag |-> "row",
                row |-> <<[file_system |-> Text(entry.spec),
                           total       |-> total.text,
                           used        |-> used.text,
                           available   |-> available.text,
                           capacity    |-> capacity.text,
                           mount_point |-> Text(entry.file)]>>]

\* the entries the function is applied to on its own
FmtEntries ==
    { [spec |-> <<"t">>, file |-> <<"/">>],
      [spec |-> <<"/", "a">>, file |-> <<"/", "a", "/", "b">>] }

\* the function is called: its arguments, and what statvfs will answer
FmtInit ==
    /\ m_pc = "call"
    /\ m_args \in [mount_entry : FmtEntries, kilo_flag : BOOLEAN,
                   is_vfs : BOOLEAN, statvfs : StatVfsResults]
    /\ m_result = [tag |-> "pending", row |-> NoRow]

\* lines 152-186: the call runs to its return
FmtReturn ==
    /\ m_pc = "call"
    /\ LET r == MountEntryToFormatEntry(m_args.mount_entry, m_args.kilo_flag,
                                        m_args.is_vfs, m_args.statvfs, overflow_checks)
       IN  /\ r.tag # "panic"
           /\ m_result' = r
           /\ m_pc' = "returned"
    /\ UNCHANGED m_args
    /\ UNCHANGED <<find_vars, main_vars>>

\* line 157 and after: an arithmetic overflow panics (overflow checks on)
FmtPanic ==
    /\ m_pc = "call"
    /\ LET r == MountEntryToFormatEntry(m_args.mount_entry, m_args.kilo_flag,
                                        m_args.is_vfs, m_args.statvfs, overflow_checks)
       IN  /\ r.tag = "panic"
           /\ m_result' = r
           /\ m_pc' = "panicked"
    /\ UNCHANGED m_args
    /\ UNCHANGED <<find_vars, main_vars>>

(***************************************************************************)
(* calculate_format_max_lens (lines 189-208), print_format_entries         *)
(* (lines 210-226).                                                        *)
(***************************************************************************)
MaxOf(S) == IF S = {} THEN 0 ELSE CHOOSE x \in S : \A y \in S : y <= x

CalculateFormatMaxLens(entries) ==
    LET Col(f) == MaxOf({Len(entries[i][f]) : i \in 1..Len(entries)})
    IN  [max_file_system_len |-> Col("file_system"),
         max_total_len       |-> Col("total"),
         max_used_len        |-> Col("used"),
         max_available_len   |-> Col("available"),
         max_capacity_len    |-> Col("capacity"),
         max_mount_point_len |-> Col("mount_point")]

\* {:<width$}
PadRight(s, width) == s \o Spaces(width - Len(s))

\* {:>width$}
PadLeft(s, width) == Spaces(width - Len(s)) \o s

\* lines 213-224: one line of the table
FormatLine(e, max_lens) ==
    PadRight(e.file_system, max_lens.max_file_system_len) \o " "
      \o PadLeft(e.total, max_lens.max_total_len) \o " "
      \o PadLeft(e.used, max_lens.max_used_len) \o " "
      \o PadLeft(e.available, max_lens.max_available_len) \o " "
      \o PadLeft(e.capacity, max_lens.max_capacity_len) \o " "
      \o e.mount_point

PrintFormatEntries(entries, max_lens) ==
    [i \in 1..Len(entries) |-> FormatLine(entries[i], max_lens)]

\* lines 299-302: what main writes to standard output
Printed(entries) ==
    IF Len(entries) > 1
    THEN PrintFormatEntries(entries, CalculateFormatMaxLens(entries))
    ELSE <<>>

(***************************************************************************)
(* main, lines 228-304: bounds and inputs.                                 *)
(***************************************************************************)
\* the most option letters on the command line
MaxOpts == 2

\* the most positional arguments (paths)
MaxArgs == 3

\* the longest mount table main is run against
MaxMainMounts == 2

\* what opt_parser.next() yields before None: -k, -P, another letter, an error
OptTokens == {"k", "P", "other", "err"}

\* the paths given on the command line
MainPaths == { <<"/", "a">>, <<"a">> }

MainEntries ==
    { [spec |-> <<"t">>, file |-> <<"/">>],
      [spec |-> <<"/", "a">>, file |-> <<"/", "a">>] }

MainTables == SeqsUpTo(MainEntries, MaxMainMounts)

\* what statvfs answers during a run of main: a failure, an empty
\* filesystem, a filesystem in use, two that report more free than total
MainStats ==
    { StatVfsErr,
      [ok |-> TRUE, frsize |-> 512, blocks |-> 0, bfree |-> 0, bavail |-> 0],
      [ok |-> TRUE, frsize |-> 512, blocks |-> 2, bfree |-> 1, bavail |-> 1],
      [ok |-> TRUE, frsize |-> 512, blocks |-> 1, bfree |-> 2, bavail |-> 0],
      [ok |-> TRUE, frsize |-> 512, blocks |-> 0, bfree |-> 1, bavail |-> 0] }

(***************************************************************************)
(* main: the history kept for the properties.  One record per item:        *)
(* outcome is "inaccessible" (fs::metadata failed), "parse_error" (the     *)
(* mount table could not be read), "no_mount", "query_failed", "skipped",  *)
(* "row" or "panic".                                                       *)
(***************************************************************************)
Item(mode, outcome, sv, row, st) ==
    [mode |-> mode, outcome |-> outcome, statvfs |-> sv, row |-> row, status |-> st]

\* the outcome of an item whose statistics were asked for
OutcomeOf(r) ==
    CASE r.tag = "row" -> "row"
      [] r.tag = "skip" -> "skipped"
      [] r.tag = "none" -> "query_failed"
      [] r.tag = "panic" -> "panic"

(***************************************************************************)
(* main, lines 228-304.                                                    *)
(***************************************************************************)
\* lines 261-262, 287-288: a row is pushed, a skip is not
PushResult(entries, r) ==
    IF r.tag = "row" THEN Append(entries, r.row[1]) ELSE entries

\* StatusAfterResult with a success clearing the status
StatusAfterResultReset(st, r) ==
    IF r.tag = "none" THEN 1 ELSE 0

\* lines 263, 289: only a failed query sets the status
StatusAfterResult(st, r) ==
    IF r.tag = "none" THEN 1 ELSE st

MainInit ==
    /\ pc = "opts"
    /\ opt_tokens \in SeqsUpTo(OptTokens, MaxOpts)
    /\ kilo_flag = FALSE
    /\ paths \in SeqsUpTo(MainPaths, MaxArgs)
    /\ mount_entries = <<>>
    /\ status = 0
    /\ format_entries = <<>>
    /\ stdout = <<>>
    /\ exit_code = -1
    /\ trace = <<>>

\* line 237
OptKilo ==
    /\ pc = "opts" /\ opt_tokens # <<>> /\ Head(opt_tokens) = "k"
    /\ kilo_flag' = TRUE
    /\ opt_tokens' = Tail(opt_tokens)
    /\ UNCHANGED <<pc, overflow_checks, paths, mount_entries, status,
                   format_entries, stdout, exit_code, trace>>
    /\ UNCHANGED <<find_vars, fmt_vars>>

\* line 238
OptPosix ==
    /\ pc = "opts" /\ opt_tokens # <<>> /\ Head(opt_tokens) = "P"
    /\ opt_tokens' = Tail(opt_tokens)
    /\ UNCHANGED <<pc, kilo_flag, overflow_checks, paths, mount_entries, status,
                   format_entries, stdout, exit_code, trace>>
    /\ UNCHANGED <<find_vars, fmt_vars>>

\* lines 239-242
OptUnknown ==
    /\ pc = "opts" /\ opt_tokens # <<>> /\ Head(opt_tokens) = "other"
    /\ pc' = "usage_exit"
    /\ exit_code' = 1
    /\ UNCHANGED <<opt_tokens, kilo_flag, overflow_checks, paths, mount_entries,
                   status, format_entries, stdout, trace>>
    /\ UNCHANGED <<find_vars, fmt_vars>>

\* lines 243-246
OptError ==
    /\ pc = "opts" /\ opt_tokens # <<>> /\ Head(opt_tokens) = "err"
    /\ pc' = "usage_exit"
    /\ exit_code' = 1
    /\ UNCHANGED <<opt_tokens, kilo_flag, overflow_checks, paths, mount_entries,
                   status, format_entries, stdout, trace>>
    /\ UNCHANGED <<find_vars, fmt_vars>>

\* lines 247, 250-254, 282
OptDone ==
    /\ pc = "opts" /\ opt_tokens = <<>>
    /\ status' = 0
    /\ format_entries' = <<HeaderFormatEntry(kilo_flag)>>
    /\ pc' = IF paths # <<>> THEN "paths" ELSE "get_mounts"
    /\ UNCHANGED <<opt_tokens, kilo_flag, overflow_checks, paths, mount_entries,
                   stdout, exit_code, trace>>
    /\ UNCHANGED <<find_vars, fmt_vars>>

\* lines 256, 276-279: fs::metadata fails
TargetedInaccessible ==
    /\ pc = "paths" /\ paths # <<>>
    /\ status' = 1
    /\ paths' = Tail(paths)
    /\ trace' = Append(trace, Item("targeted", "inaccessible", StatVfsErr, NoRow, 1))
    /\ UNCHANGED <<pc, opt_tokens, kilo_flag, overflow_checks, mount_entries,
                   format_entries, stdout, exit_code>>
    /\ UNCHANGED <<find_vars, fmt_vars>>

\* lines 258, 270-273: find_mount returns Err
TargetedParseError ==
    /\ pc = "paths" /\ paths # <<>>
    /\ status' = 1
    /\ paths' = Tail(paths)
    /\ trace' = Append(trace, Item("targeted", "parse_error", StatVfsErr, NoRow, 1))
    /\ UNCHANGED <<pc, opt_tokens, kilo_flag, overflow_checks, mount_entries,
                   format_entries, stdout, exit_code>>
    /\ UNCHANGED <<find_vars, fmt_vars>>

\* lines 258, 266-269: find_mount returns Ok(None)
TargetedNoMount ==
    /\ pc = "paths" /\ paths # <<>>
    /\ \E table \in MainTables : FindMount(Head(paths), table) = <<>>
    /\ status' = 1
    /\ paths' = Tail(paths)
    /\ trace' = Append(trace, Item("targeted", "no_mount", StatVfsErr, NoRow, 1))
    /\ UNCHANGED <<pc, opt_tokens, kilo_flag, overflow_checks, mount_entries,
                   format_entries, stdout, exit_code>>
    /\ UNCHANGED <<find_vars, fmt_vars>>

\* lines 258-265: find_mount returns Ok(Some(entry)) and the entry's
\* statistics are asked for, is_vfs = true
TargetedFound ==
    /\ pc = "paths" /\ paths # <<>>
    /\ \E table \in MainTables, sv \in MainStats :
         LET found == FindMount(Head(paths), table)
             r == MountEntryToFormatEntry(found[1], kilo_flag, TRUE, sv, overflow_checks)
         IN  /\ found # <<>>
             /\ r.tag # "panic"
             /\ format_entries' = PushResult(format_entries, r)
             /\ status' = StatusAfterResult(status, r)
             /\ trace' = Append(trace, Item("targeted", OutcomeOf(r), sv, r.row,
                                            StatusAfterResult(status, r)))
    /\ paths' = Tail(paths)
    /\ UNCHANGED <<pc, opt_tokens, kilo_flag, overflow_checks, mount_entries,
                   stdout, exit_code>>
    /\ UNCHANGED <<find_vars, fmt_vars>>

\* line 260 into line 157: the call panics and the process ends
TargetedPanic ==
    /\ pc = "paths" /\ paths # <<>>
    /\ \E table \in MainTables, sv \in MainStats :
         LET found == FindMount(Head(paths), table)
             r == MountEntryToFormatEntry(found[1], kilo_flag, TRUE, sv, overflow_checks)
         IN  /\ found # <<>>
             /\ r.tag = "panic"
             /\ trace' = Append(trace, Item("targeted", "panic", sv, NoRow, status))
    /\ paths' = Tail(paths)
    /\ pc' = "panicked"
    /\ exit_code' = 101
    /\ UNCHANGED <<opt_tokens, kilo_flag, overflow_checks, mount_entries, status,
                   format_entries, stdout>>
    /\ UNCHANGED <<find_vars, fmt_vars>>

\* line 255: the loop over the paths ends
TargetedDone ==
    /\ pc = "paths" /\ paths = <<>>
    /\ pc' = "print"
    /\ UNCHANGED <<opt_tokens, kilo_flag, overflow_checks, paths, mount_entries,
                   status, format_entries, stdout, exit_code, trace>>
    /\ UNCHANGED <<find_vars, fmt_vars>>

\* lines 283-284: get_mounts returns the whole table
GetMountsOk ==
    /\ pc = "get_mounts"
    /\ mount_entries' \in MainTables
    /\ pc' = "mounts"
    /\ UNCHANGED <<opt_tokens, kilo_flag, overflow_checks, paths, status,
                   format_entries, stdout, exit_code, trace>>
    /\ UNCHANGED <<find_vars, fmt_vars>>

\* lines 283, 293-296: get_mounts returns Err
GetMountsErr ==
    /\ pc = "get_mounts"
    /\ status' = 1
    /\ pc' = "print"
    /\ trace' = Append(trace, Item("enumerated", "parse_error", StatVfsErr, NoRow, 1))
    /\ UNCHANGED <<opt_tokens, kilo_flag, overflow_checks, paths, mount_entries,
                   format_entries, stdout, exit_code>>
    /\ UNCHANGED <<find_vars, fmt_vars>>

\* lines 285-290: one entry of the table, is_vfs = false
EnumItem ==
    /\ pc = "mounts" /\ mount_entries # <<>>
    /\ \E sv \in MainStats :
         LET r == MountEntryToFormatEntry(Head(mount_entries), kilo_flag, FALSE, sv,
                                          overflow_checks)
         IN  /\ r.tag # "panic"
             /\ format_entries' = PushResult(format_entries, r)
             /\ status' = StatusAfterResult(status, r)
             /\ trace' = Append(trace, Item("enumerated", OutcomeOf(r), sv, r.row,
                                            StatusAfterResult(status, r)))
    /\ mount_entries' = Tail(mount_entries)
    /\ UNCHANGED <<pc, opt_tokens, kilo_flag, overflow_checks, paths, stdout, exit_code>>
    /\ UNCHANGED <<find_vars, fmt_vars>>

\* line 286 into line 157: the call panics and the process ends
EnumPanic ==
    /\ pc = "mounts" /\ mount_entries # <<>>
    /\ \E sv \in MainStats :
         LET r == MountEntryToFormatEntry(Head(mount_entries), kilo_flag, FALSE, sv,
                                          overflow_checks)
         IN  /\ r.tag = "panic"
             /\ trace' = Append(trace, Item("enumerated", "panic", sv, NoRow, status))
    /\ mount_entries' = Tail(mount_entries)
    /\ pc' = "panicked"
    /\ exit_code' = 101
    /\ UNCHANGED <<opt_tokens, kilo_flag, overflow_checks, paths, status,
                   format_entries, stdout>>
    /\ UNCHANGED <<find_vars, fmt_vars>>

\* line 285: the loop over the entries ends
EnumDone ==
    /\ pc = "mounts" /\ mount_entries = <<>>
    /\ pc' = "print"
    /\ UNCHANGED <<opt_tokens, kilo_flag, overflow_checks, paths, mount_entries,
                   status, format_entries, stdout, exit_code, trace>>
    /\ UNCHANGED <<find_vars, fmt_vars>>

\* lines 299-303
PrintAndExit ==
    /\ pc = "print"
    /\ stdout' = Printed(format_entries)
    /\ exit_code' = status
    /\ pc' = "exited"
    /\ UNCHANGED <<opt_tokens, kilo_flag, overflow_checks, paths, mount_entries,
                   status, format_entries, trace>>
    /\ UNCHANGED <<find_vars, fmt_vars>>

(***************************************************************************)
(* The three specifications: a run of main, a call of find_mount, a call   *)
(* of mount_entry_to_format_entry.  Each leaves the others' variables at   *)
(* rest (the actions above say so themselves).                             *)
(***************************************************************************)
FindIdle ==
    /\ f_pc = "idle" /\ f_path = <<>> /\ f_seen = <<>>
    /\ mount_entry = <<>> /\ file_len = 0

FmtIdle ==
    /\ m_pc = "idle"
    /\ m_args = [mount_entry |-> [spec |-> <<>>, file |-> <<>>], kilo_flag |-> FALSE,
                 is_vfs |-> FALSE, statvfs |-> StatVfsErr]
    /\ m_result = [tag |-> "pending", row |-> NoRow]

MainIdle ==
    /\ pc = "idle" /\ opt_tokens = <<>> /\ kilo_flag = FALSE /\ paths = <<>>
    /\ mount_entries = <<>> /\ status = 0 /\ format_entries = <<>>
    /\ stdout = <<>> /\ exit_code = -1 /\ trace = <<>>

Init == MainInit /\ overflow_checks \in BOOLEAN /\ FindIdle /\ FmtIdle

Next ==
    \/ OptKilo \/ OptPosix \/ OptUnknown \/ OptError \/ OptDone
    \/ TargetedInaccessible \/ TargetedParseError \/ TargetedNoMount
    \/ TargetedFound \/ TargetedPanic \/ TargetedDone
    \/ GetMountsOk \/ GetMountsErr \/ EnumItem \/ EnumPanic \/ EnumDone
    \/ PrintAndExit

Spec == Init /\ [][Next]_vars

InitFind == FindInit /\ overflow_checks = FALSE /\ MainIdle /\ FmtIdle

NextFind ==
    FindOpen \/ FindOpenErr \/ FindReadEntry \/ FindReadErr \/ FindEnd

SpecFind == InitFind /\ [][NextFind]_vars

InitFmt == FmtInit /\ overflow_checks \in BOOLEAN /\ MainIdle /\ FindIdle

NextFmt == FmtReturn \/ FmtPanic

SpecFmt == InitFmt /\ [][NextFmt]_vars

(***************************************************************************)
(* Properties of find_mount (specification SpecFind).                      *)
(***************************************************************************)
\* entry e's spec is an absolute path and is the text of path p
IsExactSource(e, p) == e.spec = p /\ Len(e.spec) > 0 /\ Head(e.spec) = "/"

\* the positions of the table read whose entry is an exact source of f_path
ShortcutIdx == {i \in 1..Len(f_seen) : IsExactSource(f_seen[i], f_path)}

\* the positions whose mount point is a component-wise prefix of f_path
PrefixIdx == {i \in 1..Len(f_seen) : PathStartsWith(f_path, f_seen[i].file)}

\* the first position among the longest mount points of PrefixIdx
FirstLongestPrefix ==
    CHOOSE i \in PrefixIdx :
        /\ \A j \in PrefixIdx : Len(f_seen[j].file) <= Len(f_seen[i].file)
        /\ \A j \in PrefixIdx : j < i => Len(f_seen[j].file) < Len(f_seen[i].file)

\* C1: when no entry of the table is an exact source of the path,
\* find_mount returns the entry with the longest mount point among those
\* whose mount point is a component-wise prefix of the path, the first of
\* them in table order when several have that length, and None when no
\* mount point is a prefix.
C1_LongestPrefixFirstWins ==
    (f_pc = "ok" /\ ShortcutIdx = {}) =>
        IF PrefixIdx = {} THEN mount_entry = <<>>
        ELSE mount_entry = <<f_seen[FirstLongestPrefix]>>

\* a table with a shorter match and two different longest matches of equal
\* length; the first of the two is returned
C1_Witness ==
    /\ f_pc = "ok" /\ ShortcutIdx = {}
    /\ \E i, j, k \in PrefixIdx :
         /\ i < j
         /\ f_seen[i] # f_seen[j]
         /\ Len(f_seen[i].file) = Len(f_seen[j].file)
         /\ Len(f_seen[k].file) < Len(f_seen[i].file)
         /\ mount_entry = <<f_seen[i]>>

\* C2 as stated: whenever the path's text equals the spec of an entry E
\* and that spec starts with '/', find_mount returns E.
C2_ReturnsEveryExactSource ==
    f_pc = "ok" => \A i \in ShortcutIdx : mount_entry = <<f_seen[i]>>

\* C2 amended: when some entry is an exact source of the path, find_mount
\* returns the last exact source in table order, whatever mount points
\* are prefixes of the path, before or after it and however long.
C2_ReturnsLastExactSource ==
    (f_pc = "ok" /\ ShortcutIdx # {}) =>
        mount_entry = <<f_seen[MaxOf(ShortcutIdx)]>>

\* an exact source with a prefix-only match before it and a prefix-only
\* match with a longer mount point after it
C2_Witness ==
    /\ f_pc = "ok"
    /\ \E i \in ShortcutIdx :
         /\ mount_entry = <<f_seen[i]>>
         /\ \E k, j \in PrefixIdx \ ShortcutIdx :
              /\ k < i /\ i < j
              /\ Len(f_seen[j].file) > Len(f_seen[i].file)

\* a resolver that stops at the first exact source, and otherwise keeps
\* the first longest prefix match
RECURSIVE ShortCircuitScan(_, _, _)
ShortCircuitScan(best, table, path) ==
    IF table = <<>> THEN best
    ELSE LET e == Head(table)
         IN  IF IsExactSource(e, path) THEN <<e>>
             ELSE IF /\ PathStartsWith(path, e.file)
                     /\ (best = <<>> \/ Len(e.file) > Len(best[1].file))
             THEN ShortCircuitScan(<<e>>, Tail(table), path)
             ELSE ShortCircuitScan(best, Tail(table), path)

ShortCircuitResolver(path, table) == ShortCircuitScan(<<>>, table, path)

\* the same resolver reading the table from the entry at position from
TableFrom(table, from) == SubSeq(table, from, Len(table))

\* C9 as stated: the full scan returns what a resolver stopping at the
\* first exact source returns.
C9_SameAsShortCircuit ==
    f_pc = "ok" => mount_entry = ShortCircuitResolver(f_path, f_seen)

\* C9 amended: the full scan returns what the short-circuit resolver
\* returns when at most one entry is an exact source; in general it
\* returns the last exact source: once an entry has been selected by the
\* shortcut, a later entry replaces it if and only if that entry is an
\* exact source too (a prefix match never does).
C9_LastExactSourceWins ==
    /\ [](f_pc = "ok" =>
            /\ Cardinality(ShortcutIdx) <= 1 =>
                   mount_entry = ShortCircuitResolver(f_path, f_seen)
            /\ ShortcutIdx # {} =>
                   mount_entry = ShortCircuitResolver(
                                     f_path, TableFrom(f_seen, MaxOf(ShortcutIdx))))
    /\ [][(f_pc = "scan" /\ file_len = UsizeMax /\ Len(f_seen') > Len(f_seen)) =>
            LET e == f_seen'[Len(f_seen')]
            IN  /\ file_len' = UsizeMax
                /\ mount_entry' = IF IsExactSource(e, f_path) THEN <<e>>
                                  ELSE mount_entry]_vars

\* two different exact sources, the later one returned, and a prefix match
\* read after it
C9_Witness ==
    /\ f_pc = "ok"
    /\ \E i, j \in ShortcutIdx, k \in PrefixIdx \ ShortcutIdx :
         /\ i < j /\ j < k
         /\ f_seen[i] # f_seen[j]
         /\ mount_entry = <<f_seen[j]>>

(***************************************************************************)
(* Properties of mount_entry_to_format_entry (specification SpecFmt).      *)
(***************************************************************************)
\* the call is over and statvfs had succeeded with these counters
FmtDoneOk == m_pc \in {"returned", "panicked"} /\ m_args.statvfs.ok

\* the call had to compute a row (line 156)
FmtComputes == m_args.statvfs.blocks # 0 \/ m_args.is_vfs

ArgT == m_args.statvfs.blocks
ArgFree == m_args.statvfs.bfree
ArgA == m_args.statvfs.bavail
ArgF == m_args.statvfs.frsize
ArgU == IF m_args.kilo_flag THEN 1024 ELSE 512

\* the least q with q * d >= n (d > 0, n >= 0), and the greatest q with
\* q * d <= n
CeilQuot(n, d) == CHOOSE q \in 0..n : q * d >= n /\ (q = 0 \/ (q - 1) * d < n)
FloorQuot(n, d) == CHOOSE q \in 0..n : q * d <= n /\ (q + 1) * d > n

C10_NoUnderflow ==
    FmtDoneOk =>
        /\ m_pc = "returned"
        /\ m_result.tag \in {"row", "skip"}
        /\ FmtComputes => Fits(ArgT - ArgFree)

(***************************************************************************)
(* Properties of main (specification Spec).                                *)
(***************************************************************************)
\* the outcomes the program reports as failures
Failures == {"inaccessible", "parse_error", "no_mount", "query_failed"}

FailedItems == {i \in 1..Len(trace) : trace[i].outcome \in Failures}

\* the rows of the items that produced one, in processing order
RECURSIVE RowsOf(_)
RowsOf(t) ==
    IF t = <<>> THEN <<>>
    ELSE (IF Head(t).outcome = "row" THEN Head(t).row ELSE <<>>) \o RowsOf(Tail(t))

\* the process is over: exit(status) on line 303, or a panic
RunEnded == pc \in {"exited", "panicked"}

\* C3: the status is 1 exactly when an item has failed so far (so a later
\* success never clears it), and main's exit on line 303 hands that status
\* to the system: 1 if some item failed during the run, 0 otherwise.
C3_ExitStatus ==
    /\ status \in {0, 1}
    /\ status = 1 <=> FailedItems # {}
    /\ pc = "exited" => exit_code = status

\* a run that exits 1 after a failed item followed by an item with a row
C3_Witness ==
    /\ pc = "exited" /\ exit_code = 1
    /\ \E i, j \in 1..Len(trace) :
         i < j /\ trace[i].outcome \in Failures /\ trace[j].outcome = "row"

\* C4: a failure of one item never stops the run: when the process is
\* over and an item has failed, no path and no mount entry after it is
\* left unprocessed; and the rows after the header are the rows of the
\* items that succeeded, in order.
C4_FailureNeverStopsRun ==
    RunEnded =>
        /\ FailedItems # {} => paths = <<>> /\ mount_entries = <<>>
        /\ Len(format_entries) >= 1
        /\ Tail(format_entries) = RowsOf(trace)

\* what holds of C4: in a run that reaches line 303
C4_WhenMainReturns ==
    pc = "exited" =>
        /\ paths = <<>>
        /\ mount_entries = <<>>
        /\ Tail(format_entries) = RowsOf(trace)

\* the status before item i was processed
StatusBefore(i) == IF i = 1 THEN 0 ELSE trace[i - 1].status

\* C5: a successful query with total = 0 yields no row in enumeration mode
\* and leaves the status alone, and yields a row with total "0" in
\* targeted mode; with total # 0 it yields a row in both modes.
C5_ZeroTotal ==
    \A i \in 1..Len(trace) :
        LET it == trace[i]
        IN  it.statvfs.ok =>
              /\ (it.statvfs.blocks = 0 /\ it.mode = "enumerated") =>
                     it.outcome = "skipped" /\ it.status = StatusBefore(i)
              /\ (it.statvfs.blocks = 0 /\ it.mode = "targeted") =>
                     it.outcome = "row" /\ it.row[1].total = "0"
              /\ it.statvfs.blocks # 0 => it.outcome = "row"

\* what holds of C5: for counters with free <= total
C5_WhenFreeWithinTotal ==
    \A i \in 1..Len(trace) :
        LET it == trace[i]
        IN  (it.statvfs.ok /\ it.statvfs.bfree <= it.statvfs.blocks) =>
              /\ (it.statvfs.blocks = 0 /\ it.mode = "enumerated") =>
                     it.outcome = "skipped" /\ it.status = StatusBefore(i)
              /\ (it.statvfs.blocks = 0 /\ it.mode = "targeted") =>
                     it.outcome = "row" /\ it.row[1].total = "0"
              /\ it.statvfs.blocks # 0 => it.outcome = "row"

\* C6: when the process is over, something has been written to standard
\* output if and only if a row besides the header was collected.
C6_PrintedIffRows ==
    (RunEnded \/ pc = "usage_exit") =>
        (stdout # <<>> <=> Len(format_entries) > 1)

\* what holds of C6: in a run that reaches line 303
C6_WhenMainReturns ==
    pc = "exited" =>
        /\ stdout # <<>> <=> Len(format_entries) > 1
        /\ stdout # <<>> => Len(stdout) = Len(format_entries)

====
